---- MODULE Spec2Model ----
(***************************************************************************)
(* Facilitator repositories: AnchorRepository (save / get under an         *)
(* async-mutex lock, change notifications through Subject).                *)
(*                                                                         *)
(* Every `await` of the source is a point where other callers' steps may   *)
(* interleave; the code between two awaits runs atomically (one JavaScript *)
(* event-loop task) and is one action here.                                *)
(*                                                                         *)
(* createdAt and updatedAt are modelled as columns that hold what a caller *)
(* passes; the ORM's own upkeep of timestamps is not part of the source.   *)
(* Subject, Utils.getDefinedOwnProps and RequestRepository are not in the  *)
(* source tree; they follow the specification's description.               *)
(***************************************************************************)
EXTENDS Integers, Sequences, FiniteSets, TLC

(* ------------------------------ bounds -------------------------------- *)

\* Largest block number a caller passes to save.
MaxBlock == 2
\* Total number of save calls issued over a run.
MaxCalls == 3

\* Concurrent callers of save (each runs one save at a time).
Procs == {"p1", "p2"}
\* Anchor global addresses (primary keys of the anchors table).
AnchorGAs == {"0xA", "0xB"}
\* Values of the Date columns createdAt / updatedAt.
Times == {"t1"}
\* Observers that may register with the repository (Subject).
Observers == {"o1"}

(* ------------------------------ values -------------------------------- *)

\* JavaScript `undefined` (a field the caller did not set) and the database
\* NULL of a column that was never written.
Undefined == "undefined"
NullValue == "null"

\* `null` as returned by findOne / get on a miss.
Null == [isNull |-> TRUE]

\* Block numbers admitted by the column's validation `min: 0`.
BlockNumbers == 0..MaxBlock

\* The Anchor models a caller can pass to save: anchorGA and
\* lastAnchoredBlockNumber are mandatory, createdAt and updatedAt optional.
Anchors ==
    [anchorGA : AnchorGAs,
     lastAnchoredBlockNumber : BlockNumbers,
     createdAt : Times \cup {Undefined},
     updatedAt : Times \cup {Undefined}]

\* The error thrown by save on a non strictly growing update.
LastAnchoredBlockNumberIsNotStrictlyGrowingError(current, update) ==
    [kind |-> "LastAnchoredBlockNumberIsNotStrictlyGrowingError",
     current |-> current, update |-> update]

\* The Anchor models built from an address and a block number alone
\* (`new Anchor(anchorGA, lastAnchoredBlockNumber)`).
NewAnchors == {a \in Anchors : a.createdAt = Undefined /\ a.updatedAt = Undefined}

NoResult == [kind |-> "none"]
Returned(model) == [kind |-> "returned", value |-> model]

(* --------------------------- Message values --------------------------- *)

\* MessageStatus, MessageType and MessageDirection.
Undeclared == "Undeclared"
Declared == "Declared"
Progressed == "Progressed"
RevocationDeclared == "RevocationDeclared"
Revoked == "Revoked"
MessageStatus == {Undeclared, Declared, Progressed, RevocationDeclared, Revoked}
Stake == "Stake"
Redeem == "Redeem"
OriginToAuxiliary == "OriginToAuxiliary"
AuxiliaryToOrigin == "AuxiliaryToOrigin"

\* The attributes of a Message besides its key. Every value is a string:
\* BigNumber attributes are written as their decimal digits.
MessageFields ==
    {"type", "direction", "gatewayAddress", "sourceStatus", "targetStatus",
     "sender", "nonce", "secret", "gasPrice", "gasLimit",
     "sourceDeclarationBlockHeight"}

\* `new Message(messageHash)`: only the key is set.
NewMessage(messageHash) ==
    [f \in MessageFields \cup {"messageHash"} |->
        IF f = "messageHash" THEN messageHash ELSE Undefined]

\* `new BigNumber(value)` for the strings a subgraph delivers: decimal
\* digits, or hexadecimal digits after 0x.
BigNumber(value) ==
    CASE value = "0x1" -> "1"
      [] value = "0x2" -> "2"
      [] OTHER -> value

\* The callers of StakeProgressHandler.persist, each calling it once, and
\* the slot of a caller that has not called it yet.
Handlers == {"h1", "h2"}
NoCall == [state |-> "idle", transactions |-> << >>, models |-> << >>]

\* The subscription responses whose next callbacks the model follows, the
\* transaction kinds of a subscription and the slot of a response that has
\* not arrived.
Responses == {"r1", "r2"}
Kinds == {"stakeProgresseds", "gatewayProvens"}
NoResponse ==
    [pc |-> "idle", data |-> << >>, transactions |-> << >>,
     pending |-> << >>, saved |-> {}]

(* ------------------------------- state -------------------------------- *)

VARIABLES
    anchors,              \* the `anchors` table: anchorGA -> stored row
    mutex,                \* this.mutex: [locked, queue of waiting callers]
    observers,            \* Subject: the registered observers
    inbox,                \* per observer, the updates delivered to it
    pc,                   \* per caller, its position inside save
    anchor,               \* per caller, the argument of its current save
    anchorDatabaseModel,  \* per caller, the row findOne returned
    upsertedModel,        \* per caller, what the post-save get returned
    result,               \* per caller, the outcome of its last save
    calls,                \* number of save calls issued so far
    grantedAfter,         \* history: how the current holder got the mutex
    getResult,            \* outcome of the last stand-alone get
    requests,             \* the requests table: requestHash -> stored row
    requestResult,        \* outcome of the last getByMessageHash / create
    messages,             \* the messages table: messageHash -> stored row
    transactions,         \* the transactions table: id -> stored row
    opResult,             \* outcome of the last Message.create / Transaction.save
    handler,              \* per caller of persist, the state of its call
    before,               \* history: the messages table before any persist
    contractEntities,     \* contract_entities: <<contractAddress, kind>> -> row
    callback              \* per subscription response, its next callback

\* The state of the anchor repository and of the callers inside its save.
anchorVars == <<anchors, mutex, observers, inbox, pc, anchor,
                anchorDatabaseModel, upsertedModel, result, calls,
                grantedAfter>>

\* The state of the request repository.
requestVars == <<requests, requestResult>>

\* The state of the message and transaction repositories.
repoVars == <<messages, transactions, opResult>>

\* The state of the callers of StakeProgressHandler.persist.
handlerVars == <<handler, before>>

\* The contract entity repository and the callbacks of GraphClient.subscribe.
graphVars == <<contractEntities, callback>>

vars == <<anchorVars, getResult, requestVars, repoVars, handlerVars,
          graphVars>>

AnchorFields == {"anchorGA", "lastAnchoredBlockNumber", "createdAt", "updatedAt"}

\* The argument slot of a caller that is not inside save.
NoAnchor == [anchorGA |-> "", lastAnchoredBlockNumber |-> 0,
             createdAt |-> Undefined, updatedAt |-> Undefined]

\* The state after construction, but for the contents of the messages table.
InitButMessages ==
    /\ anchors = << >>
    /\ mutex = [locked |-> FALSE, queue |-> << >>]
    /\ observers = {}
    /\ inbox = [o \in Observers |-> << >>]
    /\ pc = [p \in Procs |-> "idle"]
    /\ anchor = [p \in Procs |-> NoAnchor]
    /\ anchorDatabaseModel = [p \in Procs |-> Null]
    /\ upsertedModel = [p \in Procs |-> Null]
    /\ result = [p \in Procs |-> NoResult]
    /\ calls = 0
    /\ grantedAfter = "none"
    /\ getResult = NoResult
    /\ requests = << >>
    /\ requestResult = NoResult
    /\ transactions = << >>
    /\ opResult = NoResult
    /\ handler = [c \in Handlers |-> NoCall]
    /\ contractEntities = << >>
    /\ callback = [r \in Responses |-> NoResponse]

Init ==
    /\ InitButMessages
    /\ messages = << >>
    /\ before = messages

(* --------------------- storage (AnchorModel table) -------------------- *)

OptionalFields == {"createdAt", "updatedAt"}

\* AnchorModel.findOne({where: {anchorGA}}): the stored row, or null.
findOne(anchorGA) ==
    IF anchorGA \in DOMAIN anchors THEN anchors[anchorGA] ELSE Null

\* Utils.getDefinedOwnProps(anchor): the own properties that are not
\* undefined. anchorGA and lastAnchoredBlockNumber are always set.
getDefinedOwnProps(a) ==
    {"anchorGA", "lastAnchoredBlockNumber"}
        \cup {f \in OptionalFields : a[f] # Undefined}

\* What a column holds after the value v was written to it.
ColumnValue(v) == IF v = Undefined THEN NullValue ELSE v

\* The row AnchorModel.upsert writes: the columns named in `fields` take the
\* passed values; the other columns keep the stored value on an update and
\* stay NULL on an insert.
UpsertedRow(stored, values, fields) ==
    [anchorGA |-> values.anchorGA,
     lastAnchoredBlockNumber |-> values.lastAnchoredBlockNumber,
     createdAt |-> IF "createdAt" \in fields THEN ColumnValue(values.createdAt)
                   ELSE IF stored = Null THEN NullValue ELSE stored.createdAt,
     updatedAt |-> IF "updatedAt" \in fields THEN ColumnValue(values.updatedAt)
                   ELSE IF stored = Null THEN NullValue ELSE stored.updatedAt]

\* Variant: every field of the model is passed, set or not.
UpsertFields_all(a) == AnchorFields

\* The fields save passes to upsert: the defined own properties of the model.
UpsertFields(a) == getDefinedOwnProps(a)

\* AnchorModel.upsert(anchor, {fields}) applied to the table.
upsert(values, fields) ==
    [ga \in DOMAIN anchors \cup {values.anchorGA} |->
        IF ga = values.anchorGA
        THEN UpsertedRow(findOne(ga), values, fields)
        ELSE anchors[ga]]

\* AnchorRepository.convertToModel: database row to Anchor model.
convertToModel(row) ==
    [anchorGA |-> row.anchorGA,
     lastAnchoredBlockNumber |-> row.lastAnchoredBlockNumber,
     createdAt |-> row.createdAt,
     updatedAt |-> row.updatedAt]

\* Variant: the row is converted without the null check, which fails with a
\* TypeError on a miss.
get_noNullCheck(anchorGA) ==
    IF findOne(anchorGA) = Null THEN [kind |-> "TypeError"]
    ELSE convertToModel(findOne(anchorGA))

\* AnchorRepository.get(anchorGA): the Anchor model, or null on a miss.
get(anchorGA) ==
    IF findOne(anchorGA) = Null THEN Null
    ELSE convertToModel(findOne(anchorGA))

(* ------------------------------- mutex -------------------------------- *)

\* Variant: every call locks a mutex of its own, so acquire never waits.
acquire_ownMutex(p) ==
    /\ mutex' = [mutex EXCEPT !.locked = TRUE]
    /\ pc' = [pc EXCEPT ![p] = "findOne"]
    /\ grantedAfter' = "free"

\* this.mutex.acquire() by caller p: taken at once when the mutex is free,
\* otherwise p joins the queue of waiters.
acquire(p) ==
    IF mutex.locked
    THEN /\ mutex' = [mutex EXCEPT !.queue = Append(@, p)]
         /\ pc' = [pc EXCEPT ![p] = "acquire"]
         /\ UNCHANGED grantedAfter
    ELSE /\ mutex' = [mutex EXCEPT !.locked = TRUE]
         /\ pc' = [pc EXCEPT ![p] = "findOne"]
         /\ grantedAfter' = "free"

\* release() by caller p, who continues at `next`: the mutex goes to the first
\* waiter, whose acquire() resolves, or becomes free. `how` records for the
\* history whether p released after an upsert or after a throw.
release(p, next, how) ==
    IF mutex.queue = << >>
    THEN /\ mutex' = [mutex EXCEPT !.locked = FALSE]
         /\ pc' = [pc EXCEPT ![p] = next]
         /\ grantedAfter' = "none"
    ELSE /\ mutex' = [mutex EXCEPT !.queue = Tail(@)]
         /\ pc' = [pc EXCEPT ![p] = next, ![Head(mutex.queue)] = "findOne"]
         /\ grantedAfter' = how

(* ------------------------------ Subject ------------------------------- *)

\* Subject.attach(observer).
attach(o) ==
    /\ o \notin observers
    /\ observers' = observers \cup {o}
    /\ UNCHANGED <<anchors, mutex, inbox, pc, anchor, anchorDatabaseModel,
                   upsertedModel, result, calls, grantedAfter, getResult,
                   requestVars, repoVars, handlerVars, graphVars>>

\* Subject.newUpdate(update): the update reaches every registered observer.
newUpdate(update) ==
    inbox' = [o \in Observers |->
                IF o \in observers THEN Append(inbox[o], update) ELSE inbox[o]]

(* ------------------------ AnchorRepository.save ----------------------- *)

\* Variant: the lock is looked up per anchorGA, so a save waits only for a
\* save of the same anchorGA.
saveCall_lockPerKey(p, a) ==
    /\ pc[p] = "idle"
    /\ calls < MaxCalls
    /\ calls' = calls + 1
    /\ anchor' = [anchor EXCEPT ![p] = a]
    /\ result' = [result EXCEPT ![p] = NoResult]
    /\ IF \E q \in Procs : /\ pc[q] \in {"findOne", "validate", "release"}
                            /\ anchor[q].anchorGA = a.anchorGA
       THEN acquire(p)
       ELSE acquire_ownMutex(p)
    /\ UNCHANGED <<anchors, observers, inbox, anchorDatabaseModel,
                   upsertedModel, getResult, requestVars,
                   repoVars, handlerVars, graphVars>>

\* save(anchor) is called by p: up to the resolution of mutex.acquire().
saveCall(p, a) ==
    /\ pc[p] = "idle"
    /\ calls < MaxCalls
    /\ calls' = calls + 1
    /\ anchor' = [anchor EXCEPT ![p] = a]
    /\ result' = [result EXCEPT ![p] = NoResult]
    /\ acquire(p)
    /\ UNCHANGED <<anchors, observers, inbox, anchorDatabaseModel,
                   upsertedModel, getResult, requestVars,
                   repoVars, handlerVars, graphVars>>

\* await AnchorModel.findOne(...) inside the critical section.
saveFindOne(p) ==
    /\ pc[p] = "findOne"
    /\ anchorDatabaseModel' =
          [anchorDatabaseModel EXCEPT ![p] = findOne(anchor[p].anchorGA)]
    /\ pc' = [pc EXCEPT ![p] = "validate"]
    /\ UNCHANGED <<anchors, mutex, observers, inbox, anchor, upsertedModel,
                   result, calls, grantedAfter, getResult, requestVars,
                   repoVars, handlerVars, graphVars>>

\* Variant: the check uses isLessThan, so an equal block number passes.
isNotStrictlyGrowing_lessThan(stored, a) ==
    /\ stored # Null
    /\ a.lastAnchoredBlockNumber < stored.lastAnchoredBlockNumber

\* The precondition check of save: the update is not strictly growing.
isNotStrictlyGrowing(stored, a) ==
    /\ stored # Null
    /\ a.lastAnchoredBlockNumber <= stored.lastAnchoredBlockNumber

\* Variant: the row is upserted before the check, which then throws.
saveThrow_afterUpsert(p) ==
    /\ pc[p] = "validate"
    /\ isNotStrictlyGrowing(anchorDatabaseModel[p], anchor[p])
    /\ anchors' = upsert(anchor[p], UpsertFields(anchor[p]))
    /\ result' = [result EXCEPT ![p] =
          LastAnchoredBlockNumberIsNotStrictlyGrowingError(
              anchorDatabaseModel[p].lastAnchoredBlockNumber,
              anchor[p].lastAnchoredBlockNumber)]
    /\ anchorDatabaseModel' = [anchorDatabaseModel EXCEPT ![p] = Null]
    /\ release(p, "idle", "throw")
    /\ anchor' = [anchor EXCEPT ![p] = NoAnchor]
    /\ UNCHANGED <<observers, inbox, upsertedModel, calls, getResult,
                   requestVars, repoVars, handlerVars, graphVars>>

\* Variant: release() follows the upsert inside the try block instead of
\* standing in a finally block, so a throw leaves the mutex locked.
saveThrow_noFinally(p) ==
    /\ pc[p] = "validate"
    /\ isNotStrictlyGrowing(anchorDatabaseModel[p], anchor[p])
    /\ result' = [result EXCEPT ![p] =
          LastAnchoredBlockNumberIsNotStrictlyGrowingError(
              anchorDatabaseModel[p].lastAnchoredBlockNumber,
              anchor[p].lastAnchoredBlockNumber)]
    /\ anchorDatabaseModel' = [anchorDatabaseModel EXCEPT ![p] = Null]
    /\ pc' = [pc EXCEPT ![p] = "idle"]
    /\ anchor' = [anchor EXCEPT ![p] = NoAnchor]
    /\ UNCHANGED <<anchors, mutex, grantedAfter, observers, inbox,
                   upsertedModel, calls, getResult, requestVars,
                   repoVars, handlerVars, graphVars>>

\* The check fails: throw, and the finally block releases the mutex.
saveThrow(p) ==
    /\ pc[p] = "validate"
    /\ isNotStrictlyGrowing(anchorDatabaseModel[p], anchor[p])
    /\ result' = [result EXCEPT ![p] =
          LastAnchoredBlockNumberIsNotStrictlyGrowingError(
              anchorDatabaseModel[p].lastAnchoredBlockNumber,
              anchor[p].lastAnchoredBlockNumber)]
    /\ anchorDatabaseModel' = [anchorDatabaseModel EXCEPT ![p] = Null]
    /\ release(p, "idle", "throw")
    /\ anchor' = [anchor EXCEPT ![p] = NoAnchor]
    /\ UNCHANGED <<anchors, observers, inbox, upsertedModel, calls,
                   getResult, requestVars,
                   repoVars, handlerVars, graphVars>>

\* The check passes: await AnchorModel.upsert(anchor, {fields}).
saveUpsert(p) ==
    /\ pc[p] = "validate"
    /\ ~isNotStrictlyGrowing(anchorDatabaseModel[p], anchor[p])
    /\ anchors' = upsert(anchor[p], UpsertFields(anchor[p]))
    /\ pc' = [pc EXCEPT ![p] = "release"]
    /\ UNCHANGED <<mutex, observers, inbox, anchor, anchorDatabaseModel,
                   upsertedModel, result, calls, grantedAfter, getResult,
                   requestVars, repoVars, handlerVars, graphVars>>

\* The upsert resolved: the finally block releases the mutex and save goes on
\* to `await this.get(anchor.anchorGA)`.
saveRelease(p) ==
    /\ pc[p] = "release"
    /\ release(p, "get", "upsert")
    /\ UNCHANGED <<anchors, observers, inbox, anchor, anchorDatabaseModel,
                   upsertedModel, result, calls, getResult, requestVars,
                   repoVars, handlerVars, graphVars>>

\* await this.get(anchor.anchorGA), outside the critical section.
saveGet(p) ==
    /\ pc[p] = "get"
    /\ upsertedModel' = [upsertedModel EXCEPT ![p] = get(anchor[p].anchorGA)]
    /\ pc' = [pc EXCEPT ![p] = "newUpdate"]
    /\ UNCHANGED <<anchors, mutex, observers, inbox, anchor,
                   anchorDatabaseModel, result, calls, grantedAfter, getResult,
                   requestVars, repoVars, handlerVars, graphVars>>

\* Variant: the model passed to save is published instead of the one read
\* back after the upsert.
saveReturn_publishesArgument(p) ==
    /\ pc[p] = "newUpdate"
    /\ newUpdate(anchor[p])
    /\ result' = [result EXCEPT ![p] = Returned(upsertedModel[p])]
    /\ pc' = [pc EXCEPT ![p] = "idle"]
    /\ anchorDatabaseModel' = [anchorDatabaseModel EXCEPT ![p] = Null]
    /\ upsertedModel' = [upsertedModel EXCEPT ![p] = Null]
    /\ anchor' = [anchor EXCEPT ![p] = NoAnchor]
    /\ UNCHANGED <<anchors, mutex, observers, calls, grantedAfter, getResult,
                   requestVars, repoVars, handlerVars, graphVars>>

\* this.newUpdate(upsertedModel); return upsertedModel.
saveReturn(p) ==
    /\ pc[p] = "newUpdate"
    /\ newUpdate(upsertedModel[p])
    /\ result' = [result EXCEPT ![p] = Returned(upsertedModel[p])]
    /\ pc' = [pc EXCEPT ![p] = "idle"]
    /\ anchorDatabaseModel' = [anchorDatabaseModel EXCEPT ![p] = Null]
    /\ upsertedModel' = [upsertedModel EXCEPT ![p] = Null]
    /\ anchor' = [anchor EXCEPT ![p] = NoAnchor]
    /\ UNCHANGED <<anchors, mutex, observers, calls, grantedAfter, getResult,
                   requestVars, repoVars, handlerVars, graphVars>>

(* ------------------------ AnchorRepository.get ------------------------ *)

\* A stand-alone get(anchorGA) by some caller of the repository.
getCall(anchorGA) ==
    /\ getResult' = [kind |-> "get", anchorGA |-> anchorGA,
                     value |-> get(anchorGA)]
    /\ UNCHANGED <<anchorVars, requestVars, repoVars, handlerVars, graphVars>>

(* -------------------------- RequestRepository ------------------------ *)

RequestHashes == {"r1", "r2"}
MessageHashes == {"m1", "m2"}

\* The Request models a caller can pass to save: requestHash is the key, the
\* messageHash back-reference is optional.
Requests ==
    [requestHash : RequestHashes, messageHash : MessageHashes \cup {Undefined}]

\* RequestRepository.save(request): upsert of the defined fields.
requestSave(r) ==
    /\ requests' =
          [h \in DOMAIN requests \cup {r.requestHash} |->
             IF h # r.requestHash THEN requests[h]
             ELSE [requestHash |-> h,
                   messageHash |->
                      IF r.messageHash # Undefined THEN r.messageHash
                      ELSE IF h \in DOMAIN requests
                           THEN requests[h].messageHash ELSE NullValue]]
    /\ UNCHANGED <<anchorVars, getResult, requestResult, repoVars, handlerVars, graphVars>>

\* The stored requests that refer to messageHash.
requestsOf(messageHash) ==
    {requests[h] : h \in {x \in DOMAIN requests :
                              requests[x].messageHash = messageHash}}

\* RequestRepository.getByMessageHash(messageHash): a request that refers to
\* the message, or null when there is none.
getByMessageHash(messageHash) ==
    /\ \E found \in IF requestsOf(messageHash) = {} THEN {Null}
                     ELSE requestsOf(messageHash) :
          requestResult' = [kind |-> "getByMessageHash",
                            messageHash |-> messageHash, value |-> found]
    /\ UNCHANGED <<anchorVars, getResult, requests, repoVars, handlerVars, graphVars>>

(* -------------------------- MessageRepository ------------------------- *)

\* The error create reports for a key that is already stored.
UniquenessViolationError(what) ==
    [kind |-> "UniquenessViolationError", message |-> what]

\* The row written for a model into an empty place: an attribute that is
\* not set is stored as null.
InsertedRow(model) ==
    [f \in DOMAIN model |->
        IF model[f] = Undefined THEN NullValue ELSE model[f]]

\* The row an upsert leaves: the set attributes of the model over the stored
\* row, or over nulls when there is none.
MergedRow(stored, model) ==
    [f \in DOMAIN model |->
        IF model[f] # Undefined THEN model[f]
        ELSE IF stored = Null THEN NullValue ELSE stored[f]]

\* The two attribute sets a caller passes to create for one hash; they
\* differ in every attribute but the hash.
MessageAttributes ==
    UNION {{[messageHash |-> h, type |-> Stake, gatewayAddress |-> "0xG1",
             sourceStatus |-> Declared, targetStatus |-> Undeclared,
             gasPrice |-> "3", gasLimit |-> "4", nonce |-> "1",
             sender |-> "0xS1", direction |-> OriginToAuxiliary,
             sourceDeclarationBlockHeight |-> "5", secret |-> Undefined],
            [messageHash |-> h, type |-> Redeem, gatewayAddress |-> "0xG2",
             sourceStatus |-> Undeclared, targetStatus |-> Declared,
             gasPrice |-> "30", gasLimit |-> "40", nonce |-> "2",
             sender |-> "0xS2", direction |-> AuxiliaryToOrigin,
             sourceDeclarationBlockHeight |-> "50", secret |-> "0xK0"]} :
           h \in MessageHashes}

\* create as an upsert: a stored row takes the attributes passed.
messageCreate_merges(attributes) ==
    /\ messages' =
          [h \in DOMAIN messages \cup {attributes.messageHash} |->
             IF h = attributes.messageHash
             THEN InsertedRow(attributes) ELSE messages[h]]
    /\ opResult' = [kind |-> "Message.create", argument |-> attributes,
                    value |-> InsertedRow(attributes)]
    /\ UNCHANGED <<anchorVars, getResult, requestVars, transactions,
                   handlerVars, graphVars>>

\* MessageRepository.create(attributes): inserts the row, or fails when the
\* hash is already stored.
messageCreate(attributes) ==
    /\ IF attributes.messageHash \in DOMAIN messages
       THEN /\ opResult' = [kind |-> "Message.create",
                            argument |-> attributes,
                            error |-> UniquenessViolationError(
                                         "Failed to create a message")]
            /\ UNCHANGED messages
       ELSE /\ messages' =
                  [h \in DOMAIN messages \cup {attributes.messageHash} |->
                     IF h = attributes.messageHash
                     THEN InsertedRow(attributes) ELSE messages[h]]
            /\ opResult' = [kind |-> "Message.create",
                            argument |-> attributes,
                            value |-> InsertedRow(attributes)]
    /\ UNCHANGED <<anchorVars, getResult, requestVars, transactions,
                   handlerVars, graphVars>>

\* The Message built from a stored row, attribute by attribute.
convertToMessage(row) ==
    [messageHash |-> row.messageHash, type |-> row.type,
     direction |-> row.direction, gatewayAddress |-> row.gatewayAddress,
     sourceStatus |-> row.sourceStatus, targetStatus |-> row.targetStatus,
     sender |-> row.sender, nonce |-> row.nonce, secret |-> row.secret,
     gasPrice |-> row.gasPrice, gasLimit |-> row.gasLimit,
     sourceDeclarationBlockHeight |-> row.sourceDeclarationBlockHeight]

\* MessageRepository.get(messageHash): the stored message, or null.
messageGet(messageHash) ==
    IF messageHash \in DOMAIN messages
    THEN convertToMessage(messages[messageHash]) ELSE Null

\* The messages table after MessageRepository.save(message): an upsert of
\* the set attributes.
messageUpsert(message) ==
    [h \in DOMAIN messages \cup {message.messageHash} |->
        IF h = message.messageHash
        THEN MergedRow(IF h \in DOMAIN messages THEN messages[h] ELSE Null,
                       message)
        ELSE messages[h]]

(* ---------------------------- Request.create -------------------------- *)

\* The message a request is about: every request belongs to one message of
\* its own.
MessageOf(requestHash) == IF requestHash = "r1" THEN "m1" ELSE "m2"

\* The requests of a repository in which no two requests refer to the same
\* message: the back-reference is unset or names the request's own message.
OwnRequests ==
    {r \in Requests :
        r.messageHash \in {Undefined, MessageOf(r.requestHash)}}

\* Request.create(request): inserts the row, or fails when the requestHash
\* is already stored.
requestCreate(r) ==
    /\ IF r.requestHash \in DOMAIN requests
       THEN /\ requestResult' = [kind |-> "Request.create", argument |-> r,
                                 error |-> UniquenessViolationError(
                                              "Failed to create a request")]
            /\ UNCHANGED requests
       ELSE /\ requests' =
                  [h \in DOMAIN requests \cup {r.requestHash} |->
                     IF h = r.requestHash THEN InsertedRow(r)
                     ELSE requests[h]]
            /\ requestResult' = [kind |-> "Request.create", argument |-> r,
                                 value |-> InsertedRow(r)]
    /\ UNCHANGED <<anchorVars, getResult, repoVars, handlerVars, graphVars>>

(* ------------------------- TransactionRepository ---------------------- *)

MaxTransactions == 2

\* The Transaction models a caller passes to save without an id.
Transactions ==
    {[id |-> Undefined, fromAddress |-> "0xF1", toAddress |-> "0xT1",
      encodedData |-> "0xD1", gasPrice |-> "1", gas |-> "2",
      transactionHash |-> "0xH1", nonce |-> "1"],
     [id |-> Undefined, fromAddress |-> "0xF2", toAddress |-> "0xT2",
      encodedData |-> "0xD2", gasPrice |-> "10", gas |-> "20",
      transactionHash |-> Undefined, nonce |-> "2"]}

\* The id the table assigns to its next row.
nextId == ToString(Cardinality(DOMAIN transactions) + 1)

\* save that returns the transaction under the id of the row before it.
transactionSave_returnsPreviousId(transaction) ==
    /\ transaction.id = Undefined
    /\ Cardinality(DOMAIN transactions) < MaxTransactions
    /\ LET created == [InsertedRow(transaction) EXCEPT !.id = nextId]
           previous == ToString(Cardinality(DOMAIN transactions))
       IN /\ transactions' =
                [i \in DOMAIN transactions \cup {nextId} |->
                    IF i = nextId THEN created ELSE transactions[i]]
          /\ opResult' = [kind |-> "Transaction.save",
                          argument |-> transaction,
                          value |-> [created EXCEPT !.id = previous]]
    /\ UNCHANGED <<anchorVars, getResult, requestVars, messages,
                   handlerVars, graphVars>>

\* TransactionRepository.save(transaction) for a transaction without an id:
\* inserts it under the next id and returns the created transaction.
transactionSave(transaction) ==
    /\ transaction.id = Undefined
    /\ Cardinality(DOMAIN transactions) < MaxTransactions
    /\ LET created == [InsertedRow(transaction) EXCEPT !.id = nextId]
       IN /\ transactions' =
                [i \in DOMAIN transactions \cup {nextId} |->
                    IF i = nextId THEN created ELSE transactions[i]]
          /\ opResult' = [kind |-> "Transaction.save",
                          argument |-> transaction, value |-> created]
    /\ UNCHANGED <<anchorVars, getResult, requestVars, messages,
                   handlerVars, graphVars>>

\* TransactionRepository.get(id): the stored transaction, or null.
transactionGet(id) ==
    IF id \in DOMAIN transactions THEN transactions[id] ELSE Null

(* ------------------------- StakeProgressHandler ----------------------- *)

MaxBatch == 2

\* The stake progress record of a message: one per message hash, with the
\* staker nonce as the subgraph delivers it.
StakeProgress(messageHash) ==
    IF messageHash = "m1"
    THEN [_messageHash |-> "m1", _staker |-> "0xS1", _stakerNonce |-> "1",
          _unlockSecret |-> "0xK1", contractAddress |-> "0xG1"]
    ELSE [_messageHash |-> "m2", _staker |-> "0xS2", _stakerNonce |-> "0x2",
          _unlockSecret |-> "0xK2", contractAddress |-> "0xG2"]

\* The batches persist is called with.
Batches ==
    UNION {[1..n -> {StakeProgress(h) : h \in MessageHashes}] :
             n \in 1..MaxBatch}

\* A message other handlers stored before any progress record arrived, with
\* attributes that differ from those of the progress record.
StoredMessage(messageHash, sourceStatus) ==
    [messageHash |-> messageHash, type |-> Redeem,
     direction |-> AuxiliaryToOrigin, gatewayAddress |-> "0xG0",
     sourceStatus |-> sourceStatus,
     targetStatus |-> IF messageHash = "m1" THEN Undeclared ELSE Declared,
     sender |-> "0xS0", nonce |-> "7", secret |-> NullValue,
     gasPrice |-> "3", gasLimit |-> "4",
     sourceDeclarationBlockHeight |-> "5"]

\* The messages tables persist can find: no row for m2, and for m1 no row
\* or a row in any source status.
StoredTables ==
    {[h \in hs |-> StoredMessage(h, status)] :
        hs \in SUBSET {"m1"}, status \in MessageStatus}

InitStored ==
    /\ InitButMessages
    /\ messages \in StoredTables
    /\ before = messages

\* The callback advancing only a Declared message: a message it creates
\* stays Undeclared.
progress_advancesDeclaredOnly(transaction, message) ==
    LET found ==
            IF message = Null
            THEN [NewMessage(transaction._messageHash) EXCEPT
                     !.sender = transaction._staker,
                     !.nonce = BigNumber(transaction._stakerNonce),
                     !.direction = OriginToAuxiliary,
                     !.type = Stake,
                     !.gatewayAddress = transaction.contractAddress,
                     !.sourceStatus = Undeclared]
            ELSE message
        moved ==
            IF found.sourceStatus = Declared
            THEN [found EXCEPT !.sourceStatus = Progressed]
            ELSE found
    IN [moved EXCEPT !.secret = transaction._unlockSecret]

\* The callback of a handler that declares: it sets Declared whatever the
\* status read.
progress_declares(transaction, message) ==
    LET found ==
            IF message = Null
            THEN [NewMessage(transaction._messageHash) EXCEPT
                     !.sender = transaction._staker,
                     !.nonce = BigNumber(transaction._stakerNonce),
                     !.direction = OriginToAuxiliary,
                     !.type = Stake,
                     !.gatewayAddress = transaction.contractAddress,
                     !.sourceStatus = Undeclared]
            ELSE message
    IN [found EXCEPT !.sourceStatus = Declared,
                     !.secret = transaction._unlockSecret]

\* The callback moving the source status one step per record handled.
progress_oneStep(transaction, message) ==
    LET found ==
            IF message = Null
            THEN [NewMessage(transaction._messageHash) EXCEPT
                     !.sender = transaction._staker,
                     !.nonce = BigNumber(transaction._stakerNonce),
                     !.direction = OriginToAuxiliary,
                     !.type = Stake,
                     !.gatewayAddress = transaction.contractAddress,
                     !.sourceStatus = Undeclared]
            ELSE message
        moved ==
            IF found.sourceStatus = Undeclared
            THEN [found EXCEPT !.sourceStatus = Declared]
            ELSE IF found.sourceStatus = Declared
                 THEN [found EXCEPT !.sourceStatus = Progressed]
                 ELSE found
    IN [moved EXCEPT !.secret = transaction._unlockSecret]

\* The callback setting Progressed whatever the status read.
progress_alwaysProgressed(transaction, message) ==
    LET found ==
            IF message = Null
            THEN [NewMessage(transaction._messageHash) EXCEPT
                     !.sender = transaction._staker,
                     !.nonce = BigNumber(transaction._stakerNonce),
                     !.direction = OriginToAuxiliary,
                     !.type = Stake,
                     !.gatewayAddress = transaction.contractAddress,
                     !.sourceStatus = Undeclared]
            ELSE message
    IN [found EXCEPT !.sourceStatus = Progressed,
                     !.secret = transaction._unlockSecret]

\* The callback setting the attributes of the record on every message, not
\* only on one it creates.
progress_overwrites(transaction, message) ==
    LET found ==
            [(IF message = Null THEN NewMessage(transaction._messageHash)
              ELSE message) EXCEPT
                !.sender = transaction._staker,
                !.nonce = BigNumber(transaction._stakerNonce),
                !.direction = OriginToAuxiliary,
                !.type = Stake,
                !.gatewayAddress = transaction.contractAddress,
                !.sourceStatus =
                    IF message = Null THEN Undeclared ELSE @]
        moved ==
            IF found.sourceStatus = Undeclared \/ found.sourceStatus = Declared
            THEN [found EXCEPT !.sourceStatus = Progressed]
            ELSE found
    IN [moved EXCEPT !.secret = transaction._unlockSecret]

\* The callback persist maps over its records, after get returned message.
progress(transaction, message) ==
    LET found ==
            IF message = Null
            THEN [NewMessage(transaction._messageHash) EXCEPT
                     !.sender = transaction._staker,
                     !.nonce = BigNumber(transaction._stakerNonce),
                     !.direction = OriginToAuxiliary,
                     !.type = Stake,
                     !.gatewayAddress = transaction.contractAddress,
                     !.sourceStatus = Undeclared]
            ELSE message
        moved ==
            IF found.sourceStatus = Undeclared \/ found.sourceStatus = Declared
            THEN [found EXCEPT !.sourceStatus = Progressed]
            ELSE found
    IN [moved EXCEPT !.secret = transaction._unlockSecret]

\* persist(transactions): the call starts one get per record.
persistCall(c, batch) ==
    /\ handler[c].state = "idle"
    /\ handler' = [handler EXCEPT ![c] =
          [state |-> "running", transactions |-> batch,
           models |-> [i \in DOMAIN batch |-> [at |-> "get", message |-> Null]]]]
    /\ UNCHANGED <<anchorVars, getResult, requestVars, repoVars, before, graphVars>>

\* The callbacks of a batch all working on its first record.
persistGet_firstRecord(c, i) ==
    /\ i \in DOMAIN handler[c].models
    /\ handler[c].models[i].at = "get"
    /\ LET transaction == handler[c].transactions[1]
       IN handler' = [handler EXCEPT ![c].models[i] =
             [at |-> "ready",
              message |-> progress(transaction,
                                   messageGet(transaction._messageHash))]]
    /\ UNCHANGED <<anchorVars, getResult, requestVars, repoVars, before, graphVars>>

\* The get of record i returns and the callback computes the model.
persistGet(c, i) ==
    /\ i \in DOMAIN handler[c].models
    /\ handler[c].models[i].at = "get"
    /\ LET transaction == handler[c].transactions[i]
       IN handler' = [handler EXCEPT ![c].models[i] =
             [at |-> "ready",
              message |-> progress(transaction,
                                   messageGet(transaction._messageHash))]]
    /\ UNCHANGED <<anchorVars, getResult, requestVars, repoVars, before, graphVars>>

\* Every model is computed: the saves have been started.
saving(c) ==
    \A i \in DOMAIN handler[c].models : handler[c].models[i].at # "get"

\* The save of models[i] completes.
persistSave(c, i) ==
    /\ i \in DOMAIN handler[c].models
    /\ saving(c)
    /\ handler[c].models[i].at = "ready"
    /\ messages' = messageUpsert(handler[c].models[i].message)
    /\ handler' = [handler EXCEPT ![c].models[i].at = "saved"]
    /\ UNCHANGED <<anchorVars, getResult, requestVars, transactions,
                   opResult, before, graphVars>>

\* A rejected save whose error is caught and dropped.
persistSaveFails_swallowed(c, i) ==
    /\ i \in DOMAIN handler[c].models
    /\ saving(c)
    /\ handler[c].models[i].at = "ready"
    /\ handler' = [handler EXCEPT ![c].models[i].at = "failed"]
    /\ UNCHANGED <<anchorVars, getResult, requestVars, repoVars, before, graphVars>>

\* The save of models[i] is rejected by the repository; Promise.all rejects
\* with the first rejection, and with it persist.
persistSaveFails(c, i) ==
    /\ i \in DOMAIN handler[c].models
    /\ saving(c)
    /\ handler[c].models[i].at = "ready"
    /\ handler' = [handler EXCEPT ![c].models[i].at = "failed",
                                  ![c].state = "rejected"]
    /\ UNCHANGED <<anchorVars, getResult, requestVars, repoVars, before, graphVars>>

\* persist returning models once the saves are started.
persistReturn_beforeSaves(c) ==
    /\ handler[c].state = "running"
    /\ saving(c)
    /\ handler' = [handler EXCEPT ![c].state = "returned"]
    /\ UNCHANGED <<anchorVars, getResult, requestVars, repoVars, before, graphVars>>

\* Every save completed: persist returns models.
persistReturn(c) ==
    /\ handler[c].state = "running"
    /\ \A i \in DOMAIN handler[c].models : handler[c].models[i].at = "saved"
    /\ handler' = [handler EXCEPT ![c].state = "returned"]
    /\ UNCHANGED <<anchorVars, getResult, requestVars, repoVars, before, graphVars>>

\* What a returned persist call resolved to.
models(c) ==
    [i \in DOMAIN handler[c].models |-> handler[c].models[i].message]

(* ------------------------------ GraphClient --------------------------- *)

\* The uts values of transactions, as the decimal strings a subgraph
\* delivers, and their numeric order.
Uts == {"1", "2"}
earlier(a, b) == a = "1" /\ b = "2"

\* The transaction lists of one kind, in ascending uts order.
TransactionLists ==
    {<< >>, <<[uts |-> "1"]>>, <<[uts |-> "2"]>>,
     <<[uts |-> "1"], [uts |-> "2"]>>}

\* The records a subscription response carries for one kind: none, or two
\* records of different contracts.
SubscriptionRecords ==
    {<< >>, <<[contractAddress |-> "0xC1"], [contractAddress |-> "0xC2"]>>}

\* response.data: the subscription records per kind.
ResponseData == [Kinds -> SubscriptionRecords]

\* The key of a ContractEntity.
keyOf(entity) == <<entity.contractAddress, entity.entityType>>

\* The transactions fetcher.fetch(data) can return for one kind: none when
\* the response has no record of the kind; otherwise transactions of the
\* contract of the first record that are newer than the timestamp stored
\* for that contract and kind.
Fetched(data, kind) ==
    {list \in TransactionLists :
        \/ list = << >>
        \/ /\ data[kind] # << >>
           /\ LET key == <<data[kind][1].contractAddress, kind>>
              IN key \in DOMAIN contractEntities
                 => earlier(contractEntities[key].timestamp, list[1].uts)}

\* ContractEntityRepository.save(contractEntity): the table after the upsert.
contractEntityUpsert(entity) ==
    [key \in DOMAIN contractEntities \cup {keyOf(entity)} |->
        IF key = keyOf(entity) THEN entity ELSE contractEntities[key]]

\* The callback updateLatestUTS maps over the kinds throws for this kind:
\* the response has no first record to take contractAddress from.
throwsFor(data, kind) == data[kind] = << >>

\* The entity built from the last subscription record and the first
\* transaction of the kind.
latestOf_lastRecordFirstTransaction(data, fetched, kind) ==
    [contractAddress |-> data[kind][Len(data[kind])].contractAddress,
     entityType |-> kind,
     timestamp |-> BigNumber(fetched[kind][1].uts)]

\* The ContractEntity the callback of updateLatestUTS saves for a kind with
\* transactions (fetched: the transactions argument).
latestOf(data, fetched, kind) ==
    [contractAddress |-> data[kind][1].contractAddress,
     entityType |-> kind,
     timestamp |->
        BigNumber(fetched[kind][Len(fetched[kind])].uts)]

\* The saves updateLatestUTS starts: one per kind whose callback does not
\* throw and whose transaction list is not empty.
savePromises(data, fetched) ==
    [kind \in {k \in DOMAIN fetched :
                  ~throwsFor(data, k) /\ Len(fetched[k]) > 0} |->
        latestOf(data, fetched, kind)]

\* The subscription delivers a response: next(response) starts the fetch.
nextCall(r, data) ==
    /\ callback[r].pc = "idle"
    /\ callback' = [callback EXCEPT ![r] =
          [NoResponse EXCEPT !.pc = "fetch", !.data = data]]
    /\ UNCHANGED <<anchorVars, getResult, requestVars, repoVars, handlerVars,
                   contractEntities>>

\* next calling updateLatestUTS as soon as the fetch returned, without
\* awaiting handler.handle.
nextFetch_updatesAtOnce(r, fetched) ==
    /\ callback[r].pc = "fetch"
    /\ \A kind \in Kinds :
          fetched[kind] \in Fetched(callback[r].data, kind)
    /\ callback' = [callback EXCEPT
          ![r].pc = "handle",
          ![r].transactions = fetched,
          ![r].pending = savePromises(callback[r].data, fetched)]
    /\ UNCHANGED <<anchorVars, getResult, requestVars, repoVars, handlerVars,
                   contractEntities>>

\* await fetcher.fetch(response.data) returns; handler.handle is called.
nextFetch(r, fetched) ==
    /\ callback[r].pc = "fetch"
    /\ \A kind \in Kinds :
          fetched[kind] \in Fetched(callback[r].data, kind)
    /\ callback' = [callback EXCEPT ![r].pc = "handle",
                                    ![r].transactions = fetched]
    /\ UNCHANGED <<anchorVars, getResult, requestVars, repoVars, handlerVars,
                   contractEntities>>

\* fetcher.fetch is rejected, and with it next.
nextFetchFails(r) ==
    /\ callback[r].pc = "fetch"
    /\ callback' = [callback EXCEPT ![r].pc = "fetchFailed"]
    /\ UNCHANGED <<anchorVars, getResult, requestVars, repoVars, handlerVars,
                   contractEntities>>

\* await handler.handle(transactions) returns; updateLatestUTS is called
\* and starts its saves. It is rejected at once when a callback throws.
nextHandle(r) ==
    /\ callback[r].pc = "handle"
    /\ LET data == callback[r].data
           fetched == callback[r].transactions
       IN callback' = [callback EXCEPT
             ![r].pc = IF \E kind \in DOMAIN fetched :
                             throwsFor(data, kind)
                       THEN "updateFailed" ELSE "updateLatestUTS",
             ![r].pending = savePromises(data, fetched)]
    /\ UNCHANGED <<anchorVars, getResult, requestVars, repoVars, handlerVars,
                   contractEntities>>

\* handler.handle is rejected, and with it next.
nextHandleFails(r) ==
    /\ callback[r].pc = "handle"
    /\ callback' = [callback EXCEPT ![r].pc = "handleFailed"]
    /\ UNCHANGED <<anchorVars, getResult, requestVars, repoVars, handlerVars,
                   contractEntities>>

\* The save updateLatestUTS started for a kind completes.
updateSave(r, kind) ==
    /\ kind \in DOMAIN callback[r].pending
    /\ LET entity == callback[r].pending[kind]
       IN /\ contractEntities' = contractEntityUpsert(entity)
          /\ callback' = [callback EXCEPT
                ![r].pending = [k \in DOMAIN callback[r].pending \ {kind} |->
                                   callback[r].pending[k]],
                ![r].saved = callback[r].saved \cup {entity}]
    /\ UNCHANGED <<anchorVars, getResult, requestVars, repoVars, handlerVars>>

\* await Promise.all(savePromises) returns, and with it next.
nextReturn(r) ==
    /\ callback[r].pc = "updateLatestUTS"
    /\ DOMAIN callback[r].pending = {}
    /\ callback' = [callback EXCEPT ![r].pc = "returned"]
    /\ UNCHANGED <<anchorVars, getResult, requestVars, repoVars, handlerVars,
                   contractEntities>>

(* ---------------------------- specifications -------------------------- *)

\* Concurrent callers of save.
NextSave ==
    \/ \E p \in Procs, a \in NewAnchors : saveCall(p, a)
    \/ \E p \in Procs : saveFindOne(p)
    \/ \E p \in Procs : saveThrow(p)
    \/ \E p \in Procs : saveUpsert(p)
    \/ \E p \in Procs : saveRelease(p)
    \/ \E p \in Procs : saveGet(p)
    \/ \E p \in Procs : saveReturn(p)

\* Concurrent callers of save, with observers registering at any time.
Next ==
    \/ NextSave
    \/ \E o \in Observers : attach(o)

Spec == Init /\ [][Next]_vars

\* The steps of caller p that the event loop runs once they are ready: every
\* continuation of save after the call itself.
saveStep(p) ==
    \/ saveFindOne(p)
    \/ saveThrow(p)
    \/ saveUpsert(p)
    \/ saveRelease(p)
    \/ saveGet(p)
    \/ saveReturn(p)

\* Concurrent callers of save, with the event loop's guarantee that a ready
\* continuation runs.
LiveSpec ==
    Init /\ [][NextSave]_vars /\ \A p \in Procs : WF_vars(saveStep(p))

\* One caller saving models with any combination of set and unset fields.
NextPartial ==
    \/ \E a \in Anchors : saveCall("p1", a)
    \/ saveFindOne("p1")
    \/ saveThrow("p1")
    \/ saveUpsert("p1")
    \/ saveRelease("p1")
    \/ saveGet("p1")
    \/ saveReturn("p1")
    \/ \E o \in Observers : attach(o)

SpecPartial == Init /\ [][NextPartial]_vars

\* Lookups on both repositories, interleaved with the saves of one caller to
\* one anchorGA (the other anchorGA is never saved) and with request saves.
NextLookup ==
    \/ \E a \in {x \in NewAnchors : x.anchorGA = "0xA"} : saveCall("p1", a)
    \/ saveFindOne("p1")
    \/ saveThrow("p1")
    \/ saveUpsert("p1")
    \/ saveRelease("p1")
    \/ saveGet("p1")
    \/ saveReturn("p1")
    \/ \E ga \in AnchorGAs : getCall(ga)
    \/ \E r \in Requests : requestSave(r)
    \/ \E h \in MessageHashes : getByMessageHash(h)

SpecLookup == Init /\ [][NextLookup]_vars

\* Creates and saves on the message, request and transaction repositories.
NextStore ==
    \/ \E attributes \in MessageAttributes : messageCreate(attributes)
    \/ \E r \in OwnRequests : requestCreate(r)
    \/ \E r \in OwnRequests : requestSave(r)
    \/ \E transaction \in Transactions : transactionSave(transaction)

SpecStore == Init /\ [][NextStore]_vars

\* Concurrent callers of persist over a stored messages table; every save
\* succeeds.
NextProgress ==
    \/ \E c \in Handlers, batch \in Batches : persistCall(c, batch)
    \/ \E c \in Handlers, i \in 1..MaxBatch : persistGet(c, i)
    \/ \E c \in Handlers, i \in 1..MaxBatch : persistSave(c, i)
    \/ \E c \in Handlers : persistReturn(c)

SpecProgress == InitStored /\ [][NextProgress]_vars

\* One caller of persist, with saves the repository may reject, and one
\* caller of AnchorRepository.save.
NextProgressFails ==
    \/ \E a \in {x \in NewAnchors : x.anchorGA = "0xA"} : saveCall("p1", a)
    \/ saveFindOne("p1")
    \/ saveThrow("p1")
    \/ saveUpsert("p1")
    \/ saveRelease("p1")
    \/ saveGet("p1")
    \/ saveReturn("p1")
    \/ \E batch \in Batches : persistCall("h1", batch)
    \/ \E i \in 1..MaxBatch : persistGet("h1", i)
    \/ \E i \in 1..MaxBatch : persistSave("h1", i)
    \/ \E i \in 1..MaxBatch : persistSaveFails("h1", i)
    \/ persistReturn("h1")

SpecProgressFails == InitStored /\ [][NextProgressFails]_vars

\* The next callbacks of the responses of a subscription, overlapping in
\* time.
NextSubscribe ==
    \/ \E r \in Responses, data \in ResponseData : nextCall(r, data)
    \/ \E r \in Responses, fetched \in [Kinds -> TransactionLists] :
          nextFetch(r, fetched)
    \/ \E r \in Responses : nextFetchFails(r)
    \/ \E r \in Responses : nextHandle(r)
    \/ \E r \in Responses : nextHandleFails(r)
    \/ \E r \in Responses, kind \in Kinds : updateSave(r, kind)
    \/ \E r \in Responses : nextReturn(r)

SpecSubscribe == Init /\ [][NextSubscribe]_vars

(* ------------------------------- claims ------------------------------- *)

ErrorKind == "LastAnchoredBlockNumberIsNotStrictlyGrowingError"

\* Caller p is between the acquisition and the release of the mutex.
inCriticalSection(p) == pc[p] \in {"findOne", "validate", "release"}

\* In this step p's save throws the non-monotonic-update error.
throws(p) == result[p].kind # ErrorKind /\ result'[p].kind = ErrorKind

\* In this step p's save decides between throwing and upserting.
decides(p) == pc[p] = "validate" /\ pc'[p] # "validate"

\* In this step p's save writes its row.
writes(p) == pc[p] = "validate" /\ pc'[p] = "release"

\* In this step p's save returns its result.
returns(p) == pc[p] = "newUpdate" /\ pc'[p] = "idle"

\* A row for a.anchorGA is stored and a's block number does not exceed it.
mustReject(a) ==
    /\ a.anchorGA \in DOMAIN anchors
    /\ a.lastAnchoredBlockNumber <= anchors[a.anchorGA].lastAnchoredBlockNumber

\* C1: save(a) throws LastAnchoredBlockNumberIsNotStrictlyGrowingError exactly
\* when, at the moment it decides, a row with a.anchorGA is stored and
\* a.lastAnchoredBlockNumber <= the stored one (equality included); otherwise
\* (no stored row, or a strictly greater block number) it writes the row with
\* a's block number and goes on to return.
C1_ThrowsExactlyWhenNotStrictlyGrowing ==
    [][\A p \in Procs :
          /\ throws(p) <=> (decides(p) /\ mustReject(anchor[p]))
          /\ (decides(p) /\ ~mustReject(anchor[p])) =>
                /\ writes(p)
                /\ anchors'[anchor[p].anchorGA].lastAnchoredBlockNumber
                      = anchor[p].lastAnchoredBlockNumber]_vars

\* C1 witness: a save was rejected for an equal block number, and another
\* save has been accepted.
C1_Witness ==
    \E p \in Procs :
        /\ result[p].kind = ErrorKind
        /\ result[p].current = result[p].update
        /\ \E q \in Procs : pc[q] = "release"

\* C2: a stored row is never removed and its lastAnchoredBlockNumber never
\* decreases; every write of a save to an existing row sets a strictly
\* greater block number, and no other step changes the row.
C2_StrictlyIncreasingOnUpdate ==
    [][\A ga \in DOMAIN anchors :
          /\ ga \in DOMAIN anchors'
          /\ IF \E p \in Procs : writes(p) /\ anchor[p].anchorGA = ga
             THEN anchors'[ga].lastAnchoredBlockNumber
                     > anchors[ga].lastAnchoredBlockNumber
             ELSE anchors'[ga] = anchors[ga]]_vars

\* C2 witness: a save has just updated an existing row to a greater block
\* number while another save is under way.
C2_Witness ==
    \E p \in Procs :
        /\ pc[p] = "release"
        /\ anchorDatabaseModel[p] # Null
        /\ anchors[anchor[p].anchorGA].lastAnchoredBlockNumber
              > anchorDatabaseModel[p].lastAnchoredBlockNumber
        /\ \E q \in Procs \ {p} : pc[q] # "idle"

\* C3: the step in which a save is rejected leaves the anchors table as it
\* was, so get returns for every anchorGA what it returned before.
C3_RejectedSaveLeavesRowUnchanged ==
    [][\A p \in Procs :
          throws(p) => /\ anchors' = anchors
                       /\ \A ga \in AnchorGAs : get(ga)' = get(ga)]_vars

\* C3 witness: a decreasing update was rejected and the block number of the
\* only stored row is still the one the error reports as current.
C3_Witness ==
    \E p \in Procs, ga \in DOMAIN anchors :
        /\ result[p].kind = ErrorKind
        /\ result[p].update < result[p].current
        /\ DOMAIN anchors = {ga}
        /\ get(ga).lastAnchoredBlockNumber = result[p].current

\* C4: at most one save is between acquire and release, whatever the
\* anchorGAs; the mutex is locked exactly while one is; and the row a save
\* read is still the stored row until that save writes.
C4_MutualExclusion ==
    /\ Cardinality({p \in Procs : inCriticalSection(p)}) <= 1
    /\ mutex.locked <=> (\E p \in Procs : inCriticalSection(p))
    /\ \A p \in Procs :
          pc[p] = "validate" =>
             anchorDatabaseModel[p] = findOne(anchor[p].anchorGA)

\* C4 witness: a save of one anchorGA waits for the mutex while a save of
\* another anchorGA is between its read and its write.
C4_Witness ==
    \E p \in Procs, q \in Procs :
        /\ pc[p] = "validate"
        /\ pc[q] = "acquire"
        /\ anchor[p].anchorGA # anchor[q].anchorGA

\* C5: the mutex is never left locked by a save that is over, and every save
\* that was called, waiting for the mutex or not, eventually completes
\* (returns or is rejected), also when the holder it waits for is rejected.
C5_LockReleasedOnEveryExit ==
    /\ [](mutex.locked => \E p \in Procs : inCriticalSection(p))
    /\ \A p \in Procs : (pc[p] # "idle") ~> (pc[p] = "idle")

\* C5 witness: a save that waited got the mutex from the release of a
\* rejected save and has written its row.
C5_Witness ==
    \E p \in Procs :
        /\ grantedAfter = "throw"
        /\ pc[p] = "release"
        /\ \E q \in Procs : result[q].kind = ErrorKind

\* C6: the Anchor a save returns has the anchorGA and the
\* lastAnchoredBlockNumber of the model that was passed to it.
C6_ReturnsWhatItPersisted ==
    [][\A p \in Procs :
          returns(p) =>
             /\ result'[p].value.anchorGA = anchor[p].anchorGA
             /\ result'[p].value.lastAnchoredBlockNumber
                   = anchor[p].lastAnchoredBlockNumber]_vars

C8_LookupOfAbsentKeyReturnsNull ==
    [][/\ getResult' # getResult =>
             /\ getResult'.anchorGA \notin DOMAIN anchors
                   => getResult'.value = Null
             /\ getResult'.anchorGA \in DOMAIN anchors
                   => getResult'.value.anchorGA = getResult'.anchorGA
             /\ anchors' = anchors /\ requests' = requests /\ inbox' = inbox
       /\ requestResult' # requestResult =>
             /\ requestsOf(requestResult'.messageHash) = {}
                   => requestResult'.value = Null
             /\ requestsOf(requestResult'.messageHash) # {}
                   => requestResult'.value.messageHash
                         = requestResult'.messageHash
             /\ anchors' = anchors /\ requests' = requests /\ inbox' = inbox
      ]_vars

\* C8 witness: both lookups returned null for an absent key while each table
\* holds a row for another key.
C8_Witness ==
    /\ getResult.kind = "get"
    /\ getResult.value = Null
    /\ getResult.anchorGA \notin DOMAIN anchors
    /\ DOMAIN anchors # {}
    /\ requestResult.kind = "getByMessageHash"
    /\ requestResult.value = Null
    /\ requestsOf(requestResult.messageHash) = {}
    /\ \E h \in DOMAIN requests : requests[h].messageHash \in MessageHashes

isFullySpecified(a) == \A f \in OptionalFields : a[f] # Undefined

\* C10: a successful save of a fully specified model leaves exactly that
\* model as the stored row, and a save of a fully specified model that equals
\* the stored row is rejected without changing the table and without
\* delivering an update: saving it twice in a row leaves the state of saving
\* it once and publishes nothing the second time.
C10_SaveTwiceIsSaveOnce ==
    [][\A p \in Procs :
          /\ (writes(p) /\ isFullySpecified(anchor[p])) =>
                convertToModel(anchors'[anchor[p].anchorGA]) = anchor[p]
          /\ (/\ decides(p)
               /\ isFullySpecified(anchor[p])
               /\ get(anchor[p].anchorGA) = anchor[p]) =>
                /\ throws(p)
                /\ anchors' = anchors
                /\ inbox' = inbox]_vars

\* C10 witness: of two saves, the first stored a fully specified row and
\* published it, and the second, with the same block number for the same
\* anchorGA, was rejected; the row and the observer's updates are those of
\* the first save.
C10_Witness ==
    \E p \in Procs, o \in observers, ga \in DOMAIN anchors :
        /\ calls = 2
        /\ pc[p] = "idle"
        /\ result[p].kind = ErrorKind
        /\ result[p].update = result[p].current
        /\ DOMAIN anchors = {ga}
        /\ isFullySpecified(get(ga))
        /\ anchors[ga].createdAt \in Times
        /\ anchors[ga].updatedAt \in Times
        /\ anchors[ga].lastAnchoredBlockNumber = result[p].current
        /\ inbox[o] = <<get(ga)>>

(* ------------------------ create and round trips ---------------------- *)

\* The outcome is a uniqueness error.
isUniquenessError(outcome) ==
    /\ "error" \in DOMAIN outcome
    /\ outcome.error.kind = "UniquenessViolationError"

\* C11: create never merges. MessageRepository.create for a messageHash
\* that is already stored, and Request.create for a requestHash that is
\* already stored, fail with a uniqueness error whatever the other
\* attributes are, and the stored row keeps every attribute it had.
C11_CreateOfExistingKeyFails ==
    [][/\ \A attributes \in MessageAttributes :
             (messageCreate(attributes)
                /\ attributes.messageHash \in DOMAIN messages)
             => /\ isUniquenessError(opResult')
                /\ opResult'.argument = attributes
                /\ messages' = messages
       /\ \A r \in OwnRequests :
             (requestCreate(r) /\ r.requestHash \in DOMAIN requests)
             => /\ isUniquenessError(requestResult')
                /\ requestResult'.argument = r
                /\ requests' = requests]_vars

\* Both creates have just failed on a stored key, with attributes that
\* differ from the stored row in every attribute but the key.
C11_Witness ==
    /\ isUniquenessError(opResult)
    /\ opResult.kind = "Message.create"
    /\ \A f \in MessageFields :
          messages[opResult.argument.messageHash][f]
             # InsertedRow(opResult.argument)[f]
    /\ isUniquenessError(requestResult)
    /\ requestResult.kind = "Request.create"
    /\ requests[requestResult.argument.requestHash].messageHash
          # InsertedRow(requestResult.argument).messageHash

\* The entity read has every attribute that was set in the entity written.
hasAttributesOf(read, written) ==
    /\ read # Null
    /\ \A f \in DOMAIN written :
          written[f] # Undefined => read[f] = written[f]

hashOf(c, i) == handler[c].transactions[i]._messageHash

\* Message m is a stake message in source status Progressed that carries
\* the values of the progress record.
isCreatedFrom(m, transaction) ==
    /\ m.messageHash = transaction._messageHash
    /\ m.sourceStatus = Progressed
    /\ m.sender = transaction._staker
    /\ m.nonce = BigNumber(transaction._stakerNonce)
    /\ m.secret = transaction._unlockSecret
    /\ m.type = Stake
    /\ m.direction = OriginToAuxiliary
    /\ m.gatewayAddress = transaction.contractAddress

\* C13: for a progress record whose hash has no stored message, persist
\* builds a new Message with sourceStatus Progressed, sender _staker, nonce
\* _stakerNonce, secret _unlockSecret, type Stake, direction
\* OriginToAuxiliary and gatewayAddress contractAddress, and the save that
\* creates the row stores exactly these values.
C13_ProgressCreatesMissingMessage ==
    [][\A c \in Handlers, i \in 1..MaxBatch :
          /\ (persistGet(c, i) /\ hashOf(c, i) \notin DOMAIN messages)
             => isCreatedFrom(handler'[c].models[i].message,
                              handler[c].transactions[i])
          /\ (persistSave(c, i) /\ hashOf(c, i) \notin DOMAIN messages)
             => isCreatedFrom(messages'[hashOf(c, i)],
                              handler[c].transactions[i])]_vars

\* A call returned after creating the message of m2, whose record carries
\* its nonce in hexadecimal.
C13_Witness ==
    \E c \in Handlers :
        /\ handler[c].state = "returned"
        /\ "m2" \in DOMAIN messages
        /\ \E i \in DOMAIN handler[c].transactions :
              /\ hashOf(c, i) = "m2"
              /\ isCreatedFrom(messages["m2"], handler[c].transactions[i])
              /\ messages["m2"].nonce = "2"
              /\ messages["m2"].targetStatus = NullValue

\* C14: once the stored sourceStatus of a message is Progressed, no step of
\* any persist call, in any order and interleaving, leaves it at Undeclared
\* or Declared.
C14_ProgressedNeverRegresses ==
    [][\A h \in DOMAIN messages :
          messages[h].sourceStatus = Progressed
          => /\ h \in DOMAIN messages'
             /\ messages'[h].sourceStatus \notin {Undeclared, Declared}]_vars

\* m1 was stored as Declared and is now Progressed, and a save for m1 of a
\* call that is still running is yet to complete.
C14_Witness ==
    /\ "m1" \in DOMAIN before
    /\ before["m1"].sourceStatus = Declared
    /\ messages["m1"].sourceStatus = Progressed
    /\ \E c \in Handlers :
          \E i \in DOMAIN handler[c].models :
              /\ hashOf(c, i) = "m1"
              /\ handler[c].models[i].at = "ready"

\* No persist call is in flight.
allReturned == \A c \in Handlers : handler[c].state \in {"idle", "returned"}

\* A record for hash h was in the batch of some call.
delivered(h) ==
    \E c \in Handlers :
        \E i \in DOMAIN handler[c].transactions : hashOf(c, i) = h

\* The row of h is the one its own progress record yields: a message that
\* was not stored carries the values of the record of h; a stored message
\* carries the secret of the record of h, is Progressed unless it was
\* RevocationDeclared or Revoked, and keeps its other attributes.
persistedFromOwnRecord(h) ==
    /\ h \in DOMAIN messages
    /\ IF h \notin DOMAIN before
       THEN /\ isCreatedFrom(messages[h], StakeProgress(h))
            /\ \A f \in {"targetStatus", "gasPrice", "gasLimit",
                         "sourceDeclarationBlockHeight"} :
                  messages[h][f] = NullValue
       ELSE /\ messages[h].secret = StakeProgress(h)._unlockSecret
            /\ messages[h].sourceStatus =
                  IF before[h].sourceStatus \in {RevocationDeclared, Revoked}
                  THEN before[h].sourceStatus ELSE Progressed
            /\ \A f \in MessageFields \ {"secret", "sourceStatus"} :
                  messages[h][f] = before[h][f]

once(h) ==
    LET row == IF h \in DOMAIN before THEN before[h] ELSE Null
        read == IF row = Null THEN Null ELSE convertToMessage(row)
    IN MergedRow(row, progress(StakeProgress(h), read))

\* The number of records for h in the batches of all calls.
deliveries(h) ==
    Cardinality({<<c, i>> \in Handlers \X (1..MaxBatch) :
                    i \in DOMAIN handler[c].transactions /\ hashOf(c, i) = h})

\* C16: persist is idempotent under replay. However often the progress
\* record of a message is delivered, inside one batch, in successive calls
\* or in interleaved concurrent calls, the stored message is in the end the
\* one a single delivery leaves.
C16_ReplayLeavesSameMessage ==
    allReturned
    => \A h \in MessageHashes :
          IF delivered(h)
          THEN h \in DOMAIN messages /\ messages[h] = once(h)
          ELSE h \in DOMAIN messages <=> h \in DOMAIN before

\* The record of m1 was delivered three times, twice of them in one batch.
C16_Witness ==
    /\ allReturned
    /\ "m1" \notin DOMAIN before
    /\ deliveries("m1") >= 3
    /\ messages["m1"] = once("m1")

\* C17: a failed save is never swallowed. When the save of any record of a
\* batch is rejected, persist is rejected and stays so, also while the
\* other saves of the batch complete; and when AnchorRepository.save must
\* reject an anchor, its caller gets the error.
C17_SaveFailurePropagates ==
    [][/\ \A c \in Handlers :
             /\ (\E i \in DOMAIN handler'[c].models :
                    handler'[c].models[i].at = "failed")
                => handler'[c].state = "rejected"
             /\ handler[c].state = "rejected"
                => handler'[c].state = "rejected"
       /\ \A p \in Procs :
             (decides(p) /\ mustReject(anchor[p]))
             => result'[p].kind = ErrorKind]_vars

\* persist was rejected for a batch of which one save failed and the other
\* completed, and a save of an anchor was rejected.
C17_Witness ==
    /\ handler["h1"].state = "rejected"
    /\ \E i, j \in DOMAIN handler["h1"].models :
          /\ handler["h1"].models[i].at = "failed"
          /\ handler["h1"].models[j].at = "saved"
    /\ result["p1"].kind = ErrorKind

\* The source status a progress record moves status to.
forward(status) ==
    IF status \in {Undeclared, Declared} THEN Progressed ELSE status

\* C18: for a message that is stored, a progress record moves sourceStatus
\* to Progressed from Undeclared or Declared and leaves it as it is from
\* Progressed, RevocationDeclared or Revoked, both in the model the callback
\* computes from the message it read and in the row a save leaves; and
\* targetStatus is never changed by persist.
C18_OnlyForwardTransition ==
    [][\A c \in Handlers, i \in 1..MaxBatch :
          /\ (persistGet(c, i) /\ hashOf(c, i) \in DOMAIN messages)
             => LET model == handler'[c].models[i].message
                    row == messages[hashOf(c, i)]
                IN /\ model.sourceStatus = forward(row.sourceStatus)
                   /\ model.targetStatus = row.targetStatus
          /\ (persistSave(c, i) /\ hashOf(c, i) \in DOMAIN messages)
             => LET row == messages[hashOf(c, i)]
                    saved == messages'[hashOf(c, i)]
                IN /\ saved.sourceStatus = forward(row.sourceStatus)
                   /\ saved.targetStatus = row.targetStatus]_vars

\* A call handled the record of m1, which was stored as Revoked, and
\* returned: the message is still Revoked, with targetStatus as before.
C18_Witness ==
    /\ "m1" \in DOMAIN before
    /\ before["m1"].sourceStatus = Revoked
    /\ messages["m1"].sourceStatus = Revoked
    /\ messages["m1"].targetStatus = Undeclared
    /\ messages["m1"].secret = "0xK1"
    /\ \E c \in Handlers :
          /\ handler[c].state = "returned"
          /\ hashOf(c, 1) = "m1"

\* The attributes persist sets only on a message it creates.
CreationFields == {"sender", "nonce", "type", "direction", "gatewayAddress"}

\* C19: every save of persist stores the _unlockSecret of its record as the
\* secret of the message, whatever its sourceStatus was; and for a message
\* that is stored, neither the model the callback computes nor the save
\* replaces sender, nonce, type, direction or gatewayAddress.
C19_SecretSetOthersKept ==
    [][\A c \in Handlers, i \in 1..MaxBatch :
          /\ (persistGet(c, i) /\ hashOf(c, i) \in DOMAIN messages)
             => LET model == handler'[c].models[i].message
                IN /\ model.secret = handler[c].transactions[i]._unlockSecret
                   /\ \A f \in CreationFields :
                         model[f] = messages[hashOf(c, i)][f]
          /\ persistSave(c, i)
             => /\ messages'[hashOf(c, i)].secret
                      = handler[c].transactions[i]._unlockSecret
                /\ hashOf(c, i) \in DOMAIN messages
                   => \A f \in CreationFields :
                         messages'[hashOf(c, i)][f]
                            = messages[hashOf(c, i)][f]]_vars

\* A call handled the record of m1, which was stored as Progressed with
\* other attributes than the record's, and returned: the message has the
\* secret of the record and the sender, nonce and gateway it had.
C19_Witness ==
    /\ "m1" \in DOMAIN before
    /\ before["m1"].sourceStatus = Progressed
    /\ before["m1"].secret # "0xK1"
    /\ messages["m1"].secret = "0xK1"
    /\ messages["m1"].sender = "0xS0"
    /\ messages["m1"].nonce = "7"
    /\ messages["m1"].gatewayAddress = "0xG0"
    /\ messages["m1"].type = Redeem
    /\ \E c \in Handlers :
          /\ handler[c].state = "returned"
          /\ hashOf(c, 1) = "m1"

\* C20: what persist returns has one Message per record of the batch, in
\* the order of the batch, element i with the messageHash of record i; and
\* when it has returned, the save of every one of them has completed.
C20_ReturnsOneSavedMessagePerRecord ==
    \A c \in Handlers :
        handler[c].state = "returned"
        => /\ DOMAIN models(c) = DOMAIN handler[c].transactions
           /\ \A i \in DOMAIN handler[c].transactions :
                 /\ models(c)[i].messageHash = hashOf(c, i)
                 /\ handler[c].models[i].at = "saved"

\* persist returned for the batch of m2 followed by m1.
C20_Witness ==
    /\ handler["h1"].state = "returned"
    /\ Len(handler["h1"].transactions) = 2
    /\ models("h1")[1].messageHash = "m2"
    /\ models("h1")[2].messageHash = "m1"
    /\ {"m1", "m2"} \subseteq DOMAIN messages

(* ------------------------- order of notifications --------------------- *)

\* C21: for every anchorGA, the updates an observer has received carry
\* lastAnchoredBlockNumber values that never decrease in the order of
\* delivery.
C21_NotificationsNeverDecrease ==
    \A o \in Observers :
        \A i, j \in DOMAIN inbox[o] :
            (i < j /\ inbox[o][i].anchorGA = inbox[o][j].anchorGA)
            => inbox[o][i].lastAnchoredBlockNumber
                  <= inbox[o][j].lastAnchoredBlockNumber

(* ------------------------------ GraphClient --------------------------- *)

\* In this step a save of a ContractEntity completes for response r.
savesFor(r) == callback'[r].saved # callback[r].saved

\* The positions of next from which a step may lead to the given position.
cameFrom(position) ==
    CASE position = "fetch" -> {"idle"}
      [] position \in {"handle", "fetchFailed"} -> {"fetch"}
      [] position \in {"updateLatestUTS", "updateFailed", "handleFailed"}
            -> {"handle"}
      [] position = "returned" -> {"updateLatestUTS"}
      [] OTHER -> {}

\* C22: for each response, next runs fetch, then handler.handle, then
\* updateLatestUTS, in that order. A ContractEntity is saved for a response
\* only after handler.handle returned for it, every change of the table is
\* such a save, and a response whose fetch or handle failed has no save,
\* started or completed.
C22_FetchHandleThenUpdate ==
    [][/\ \A r \in Responses :
             /\ callback'[r].pc # callback[r].pc
                => callback[r].pc \in cameFrom(callback'[r].pc)
             /\ savesFor(r)
                => callback[r].pc \in {"updateLatestUTS", "updateFailed"}
             /\ callback'[r].pc \in {"idle", "fetch", "handle",
                                     "fetchFailed", "handleFailed"}
                => /\ callback'[r].saved = {}
                   /\ DOMAIN callback'[r].pending = {}
       /\ contractEntities' # contractEntities
          => \E r \in Responses : savesFor(r)]_vars

\* One response went through fetch, handle and a save and returned; for
\* the other, handle failed and nothing was saved.
C22_Witness ==
    \E r, q \in Responses :
        /\ callback[r].pc = "returned"
        /\ callback[r].saved # {}
        /\ callback[q].pc = "handleFailed"
        /\ \E kind \in Kinds : callback[q].transactions[kind] # << >>
        /\ callback[q].saved = {}

\* C23: the timestamp stored for a (contractAddress, entityType) pair never
\* decreases, whatever the responses and however their next callbacks
\* overlap.
C23_TimestampNeverDecreases ==
    [][\A key \in DOMAIN contractEntities :
          /\ key \in DOMAIN contractEntities'
          /\ ~earlier(contractEntities'[key].timestamp,
                      contractEntities[key].timestamp)]_vars

\* C24: updateLatestUTS starts, for every kind with at least one fetched
\* transaction, one save of a ContractEntity with the contractAddress of
\* the first subscription record of the kind, the kind, and the uts of the
\* last transaction of the kind, and none for a kind without transactions.
\* A save that completes writes that row and no other, and no response
\* saves two entities of one kind.
C24_SavesLatestPerKind ==
    [][\A r \in Responses :
          /\ nextHandle(r)
             => \A kind \in Kinds :
                   LET list == callback[r].transactions[kind]
                   IN IF list = << >>
                      THEN kind \notin DOMAIN callback'[r].pending
                      ELSE /\ kind \in DOMAIN callback'[r].pending
                           /\ callback'[r].pending[kind] =
                                 [contractAddress |->
                                     callback[r].data[kind][1].contractAddress,
                                  entityType |-> kind,
                                  timestamp |-> list[Len(list)].uts]
          /\ \A kind \in Kinds :
                updateSave(r, kind)
                => LET entity == callback[r].pending[kind]
                   IN /\ contractEntities'[keyOf(entity)] = entity
                      /\ \A key \in DOMAIN contractEntities \ {keyOf(entity)} :
                            contractEntities'[key] = contractEntities[key]
                      /\ DOMAIN contractEntities'
                            = DOMAIN contractEntities \cup {keyOf(entity)}
          /\ \A e, f \in callback'[r].saved :
                e.entityType = f.entityType => e = f]_vars

\* A response with transactions of uts 1 and 2 for one kind and none for
\* the other returned: the entity of the first record's contract is stored
\* with timestamp 2, and nothing is stored for the other kind.
C24_Witness ==
    \E r \in Responses :
        /\ callback[r].pc = "returned"
        /\ Len(callback[r].transactions["stakeProgresseds"]) = 2
        /\ callback[r].transactions["gatewayProvens"] = << >>
        /\ callback[r].saved =
              {[contractAddress |-> "0xC1",
                entityType |-> "stakeProgresseds", timestamp |-> "2"]}
        /\ DOMAIN contractEntities = {<<"0xC1", "stakeProgresseds">>}
        /\ contractEntities[<<"0xC1", "stakeProgresseds">>].timestamp = "2"

====
